---------------------------- MODULE Spec2Model ----------------------------
(***************************************************************************)
(* Model of the kf command layer: the configure-space mutators and         *)
(* accessors (pkg/kf/commands/spaces/config_space.go) and the proxy-route  *)
(* command (pkg/kf/commands/routes/proxy_route.go).                        *)
(***************************************************************************)
EXTENDS Integers, Sequences, FiniteSets, TLC

VARIABLES
    space,      \* the v1alpha1.Space a mutator is applied to (in memory)
    before,     \* that space as it was before the last mutator call
    lastOp,     \* name of the last mutator applied
    lastArgs,   \* its positional arguments (after SPACE_NAME)
    lastErr,    \* TRUE iff the last mutator call returned an error
    cmd,        \* the subcommand this process runs, with its arguments and flags
    cluster,    \* what the cluster holds for it: target namespace, ingresses
    procs,      \* the mutation commands that run side by side on one space
    pc,         \* position of the command's RunE
    silenceUsage, \* cmd.SilenceUsage
    result,     \* "running", or what RunE returned: "ok" / "error"
    failKind,   \* the step whose error RunE returned ("none" if none)
    out,        \* what was written to cmd.OutOrStdout(), in order
    remote,     \* the stored space and its resource version
    remote0,    \* the stored space when the command started
    fetchedVersion, \* resource version of the object Transform last fetched
    writes,     \* write calls made to the store by this command
    attempts,   \* conflict retries made by the store's Transform
    extUpdates, \* updates other clients made to the stored space
    gateway,    \* the gateway variable of proxy-route (bound to --gateway)
    listCalls,  \* calls of ingressLister.ListIngresses
    listener,   \* "none" or "bound": the local TCP listener
    conns       \* the connections of the proxy's listener

varsMut == <<space, before, lastOp, lastArgs, lastErr>>

varsStore == <<remote, remote0, fetchedVersion, writes, attempts, extUpdates>>

varsProxy == <<gateway, listCalls, listener, conns>>

varsCli == <<cmd, cluster, procs, pc, silenceUsage, result, failKind, out>>

vars == <<space, before, lastOp, lastArgs, lastErr, cmd, cluster, procs, pc, silenceUsage,
          result, failKind, out, remote, remote0, fetchedVersion, writes, attempts,
          extUpdates, gateway, listCalls, listener, conns>>

-----------------------------------------------------------------------------
(* Bounds and input alphabets *)

MaxDomains == 3        \* longest domain list append-domain may build
MaxInitDomains == 2    \* longest domain list a run starts from
MaxInitEnv == 2        \* longest env list a run starts from
MaxRetries == 1        \* conflict retries the store makes before giving up
MaxExternalUpdates == 2 \* updates by other clients during one command
MaxConns == 2          \* connections the proxy's listener accepts in a run
MaxCandidates == 2     \* most ingresses discovery returns

DomainNames == {"a.example.com", "b.example.com", "c.example.com"}
EnvNames == {"A", "B"}
EnvValues == {"1", "2"}
Registries == {"gcr.io/one", "gcr.io/two"}
Builders == {"builder:1", "builder:2"}

SpaceDomain == [Domain : DomainNames, Default : BOOLEAN]
EnvVar == [Name : EnvNames, Value : EnvValues]

SeqsUpTo(S, n) == UNION {[1..k -> S] : k \in 0..n}

DefaultCount(doms) == Cardinality({i \in 1..Len(doms) : doms[i].Default})

DomainNamesOf(doms) == {doms[i].Domain : i \in 1..Len(doms)}

EnvNamesOf(env) == {env[i].Name : i \in 1..Len(env)}

\* The fields of v1alpha1.Space the commands read and write:
\* Spec.Execution.{Env,Domains}, Spec.BuildpackBuild.{Env,ContainerRegistry,BuilderImage}
EmptySpace ==
    [ExecutionEnv |-> <<>>, BuildpackEnv |-> <<>>, ContainerRegistry |-> "",
     BuilderImage |-> "", Domains |-> <<>>]

-----------------------------------------------------------------------------
(* Collaborators whose bodies live outside the two command files *)

\* envutil.RemoveEnvVars: the entries whose name is not in names, in order.
RECURSIVE RemoveEnvVars(_, _)
RemoveEnvVars(names, env) ==
    IF env = <<>> THEN <<>>
    ELSE IF Head(env).Name \in names THEN RemoveEnvVars(names, Tail(env))
    ELSE <<Head(env)>> \o RemoveEnvVars(names, Tail(env))

\* algorithms.Delete on SpaceDomains: an ordered filter, keyed by domain name,
\* that drops from a every entry whose name some entry of b carries.
RECURSIVE Delete(_, _)
Delete(a, b) ==
    IF a = <<>> THEN <<>>
    ELSE IF Head(a).Domain \in DomainNamesOf(b) THEN Delete(Tail(a), b)
    ELSE <<Head(a)>> \o Delete(Tail(a), b)

-----------------------------------------------------------------------------
(* The mutators: each maps (arguments, space) to the space as the call     *)
(* leaves it and the error it returns.                                     *)

Ok(s) == [space |-> s, err |-> FALSE]

newSetContainerRegistryMutator(registry, s) ==
    Ok([s EXCEPT !.ContainerRegistry = registry])

newSetBuildpackBuilderMutator(image, s) ==
    Ok([s EXCEPT !.BuilderImage = image])

\* set-env that forgets to remove the old entry (used to test the properties).
newSetEnvMutatorNoRemove(name, value, s) ==
    Ok([s EXCEPT !.ExecutionEnv = Append(s.ExecutionEnv, [Name |-> name, Value |-> value])])

newSetEnvMutator(name, value, s) ==
    LET tmp == RemoveEnvVars({name}, s.ExecutionEnv)
    IN  Ok([s EXCEPT !.ExecutionEnv = Append(tmp, [Name |-> name, Value |-> value])])

newUnsetEnvMutator(name, s) ==
    Ok([s EXCEPT !.ExecutionEnv = RemoveEnvVars({name}, s.ExecutionEnv)])

\* set-buildpack-env that writes the execution env list (used to test the
\* properties).
newSetBuildpackEnvMutatorWrongList(name, value, s) ==
    LET tmp == RemoveEnvVars({name}, s.BuildpackEnv)
    IN  Ok([s EXCEPT !.ExecutionEnv = Append(tmp, [Name |-> name, Value |-> value])])

newSetBuildpackEnvMutator(name, value, s) ==
    LET tmp == RemoveEnvVars({name}, s.BuildpackEnv)
    IN  Ok([s EXCEPT !.BuildpackEnv = Append(tmp, [Name |-> name, Value |-> value])])

newUnsetBuildpackEnvMutator(name, s) ==
    Ok([s EXCEPT !.BuildpackEnv = RemoveEnvVars({name}, s.BuildpackEnv)])

\* append-domain that skips a name the list already has (used to test the
\* properties).
newAppendDomainMutatorDedup(domain, s) ==
    IF domain \in DomainNamesOf(s.Domains)
      THEN Ok(s)
      ELSE Ok([s EXCEPT !.Domains = Append(s.Domains, [Domain |-> domain, Default |-> FALSE])])

newAppendDomainMutator(domain, s) ==
    Ok([s EXCEPT !.Domains = Append(s.Domains, [Domain |-> domain, Default |-> FALSE])])

\* set-default-domain that reports no error for a missing name (used to test
\* the properties).
newSetDefaultDomainMutatorNoError(domain, s) ==
    Ok([s EXCEPT !.Domains =
           [i \in 1..Len(s.Domains) |->
               [Domain |-> s.Domains[i].Domain,
                Default |-> (s.Domains[i].Domain = domain)]]])

\* The loop writes every entry's flag in place while it scans, and only
\* afterwards reports a missing name.
newSetDefaultDomainMutator(domain, s) ==
    LET found == \E i \in 1..Len(s.Domains) : s.Domains[i].Domain = domain
        scanned == [i \in 1..Len(s.Domains) |->
                       [Domain |-> s.Domains[i].Domain,
                        Default |-> (s.Domains[i].Domain = domain)]]
    IN  [space |-> [s EXCEPT !.Domains = scanned], err |-> ~found]

\* Variants of remove-domain with a slip in them (used to test the properties).
RECURSIVE DeleteFirst(_, _)
DeleteFirst(a, name) ==
    IF a = <<>> THEN <<>>
    ELSE IF Head(a).Domain = name THEN Tail(a)
    ELSE <<Head(a)>> \o DeleteFirst(Tail(a), name)

RECURSIVE DedupeByName(_)
DedupeByName(a) ==
    IF a = <<>> THEN <<>>
    ELSE LET front == DedupeByName(SubSeq(a, 1, Len(a) - 1))
             last == a[Len(a)]
         IN  IF last.Domain \in DomainNamesOf(front) THEN front ELSE Append(front, last)

newRemoveDomainMutatorFirstOnly(domain, s) ==
    Ok([s EXCEPT !.Domains = DeleteFirst(s.Domains, domain)])

newRemoveDomainMutatorDeduped(domain, s) ==
    Ok([s EXCEPT !.Domains =
           Delete(DedupeByName(s.Domains), <<[Domain |-> domain, Default |-> FALSE]>>)])

\* remove-domain that drops only the entries equal to the one it builds, flag
\* included (used to test the properties).
newRemoveDomainMutatorByEquality(domain, s) ==
    Ok([s EXCEPT !.Domains =
           SelectSeq(s.Domains, LAMBDA d : d # [Domain |-> domain, Default |-> FALSE])])

newRemoveDomainMutator(domain, s) ==
    Ok([s EXCEPT !.Domains = Delete(s.Domains, <<[Domain |-> domain, Default |-> FALSE]>>)])

\* sm.Init(args) followed by a call of the mutator it returns.
RunMutator(op, args, s) ==
    CASE op = "set-container-registry" -> newSetContainerRegistryMutator(args[1], s)
      [] op = "set-buildpack-builder"  -> newSetBuildpackBuilderMutator(args[1], s)
      [] op = "set-env"                -> newSetEnvMutator(args[1], args[2], s)
      [] op = "unset-env"              -> newUnsetEnvMutator(args[1], s)
      [] op = "set-buildpack-env"      -> newSetBuildpackEnvMutator(args[1], args[2], s)
      [] op = "unset-buildpack-env"    -> newUnsetBuildpackEnvMutator(args[1], s)
      [] op = "append-domain"          -> newAppendDomainMutator(args[1], s)
      [] op = "set-default-domain"     -> newSetDefaultDomainMutator(args[1], s)
      [] op = "remove-domain"          -> newRemoveDomainMutator(args[1], s)

-----------------------------------------------------------------------------
(* SpecDomains: the domain mutators applied, in any order, to one space    *)

NoRequest == [Host |-> "", Scheme |-> "", URLHost |-> ""]

FreeConn == [st |-> "free", req |-> NoRequest, fwd |-> NoRequest, status |-> 0, logs |-> {}]

\* The two commands of a concurrent run.
Procs == {1, 2}

IdleProc ==
    [name |-> "", args |-> <<>>, pc |-> "done", obj |-> EmptySpace, version |-> 0,
     attempts |-> 0, diffs |-> 0, result |-> "running"]

NoCommand == [kind |-> "none", name |-> "", args |-> <<>>, gateway |-> "", noStart |-> FALSE]

\* No command running: the state of the command, store and proxy variables in
\* the specifications that apply the mutators directly.
CliIdle ==
    /\ cmd = NoCommand
    /\ cluster = [namespaceSet |-> TRUE, ingresses |-> <<>>]
    /\ procs = [p \in Procs |-> IdleProc]
    /\ pc = "done"
    /\ silenceUsage = FALSE
    /\ result = "running"
    /\ failKind = "none"
    /\ out = <<>>
    /\ remote = [obj |-> EmptySpace, version |-> 0]
    /\ remote0 = EmptySpace
    /\ fetchedVersion = 0
    /\ writes = 0
    /\ attempts = 0
    /\ extUpdates = 0
    /\ gateway = ""
    /\ listCalls = 0
    /\ listener = "none"
    /\ conns = [c \in 1..MaxConns |-> FreeConn]

\* The mutator call itself: the space is rewritten in place, the error returned.
Mutated(r) ==
    /\ before' = space
    /\ space' = r.space
    /\ lastErr' = r.err

InitDomains ==
    /\ \E doms \in SeqsUpTo(SpaceDomain, MaxInitDomains) :
          /\ DefaultCount(doms) <= 1
          /\ space = [EmptySpace EXCEPT !.Domains = doms,
                                        !.ContainerRegistry = "gcr.io/one",
                                        !.ExecutionEnv = <<[Name |-> "A", Value |-> "1"]>>]
    /\ before = space
    /\ lastOp = "none"
    /\ lastArgs = <<>>
    /\ lastErr = FALSE
    /\ CliIdle

AppendDomain ==
    \E d \in DomainNames :
        /\ Len(space.Domains) < MaxDomains
        /\ lastOp' = "append-domain"
        /\ lastArgs' = <<d>>
        /\ Mutated(RunMutator("append-domain", <<d>>, space))
        /\ UNCHANGED <<varsCli, varsStore, varsProxy>>

SetDefaultDomain ==
    \E d \in DomainNames :
        /\ lastOp' = "set-default-domain"
        /\ lastArgs' = <<d>>
        /\ Mutated(RunMutator("set-default-domain", <<d>>, space))
        /\ UNCHANGED <<varsCli, varsStore, varsProxy>>

RemoveDomain ==
    \E d \in DomainNames :
        /\ lastOp' = "remove-domain"
        /\ lastArgs' = <<d>>
        /\ Mutated(RunMutator("remove-domain", <<d>>, space))
        /\ UNCHANGED <<varsCli, varsStore, varsProxy>>

NextDomains == AppendDomain \/ SetDefaultDomain \/ RemoveDomain

SpecDomains == InitDomains /\ [][NextDomains]_vars

-----------------------------------------------------------------------------
(* SpecEnv: the env mutators applied, in any order, to one space           *)

InitEnv ==
    /\ \E env \in SeqsUpTo(EnvVar, MaxInitEnv), benv \in SeqsUpTo(EnvVar, MaxInitEnv) :
          space = [EmptySpace EXCEPT !.ExecutionEnv = env,
                                     !.BuildpackEnv = benv,
                                     !.Domains = <<[Domain |-> "a.example.com", Default |-> TRUE]>>]
    /\ before = space
    /\ lastOp = "none"
    /\ lastArgs = <<>>
    /\ lastErr = FALSE
    /\ CliIdle

SetEnv ==
    \E n \in EnvNames, v \in EnvValues :
        /\ lastOp' = "set-env"
        /\ lastArgs' = <<n, v>>
        /\ Mutated(RunMutator("set-env", <<n, v>>, space))
        /\ UNCHANGED <<varsCli, varsStore, varsProxy>>

UnsetEnv ==
    \E n \in EnvNames :
        /\ lastOp' = "unset-env"
        /\ lastArgs' = <<n>>
        /\ Mutated(RunMutator("unset-env", <<n>>, space))
        /\ UNCHANGED <<varsCli, varsStore, varsProxy>>

SetBuildpackEnv ==
    \E n \in EnvNames, v \in EnvValues :
        /\ lastOp' = "set-buildpack-env"
        /\ lastArgs' = <<n, v>>
        /\ Mutated(RunMutator("set-buildpack-env", <<n, v>>, space))
        /\ UNCHANGED <<varsCli, varsStore, varsProxy>>

UnsetBuildpackEnv ==
    \E n \in EnvNames :
        /\ lastOp' = "unset-buildpack-env"
        /\ lastArgs' = <<n>>
        /\ Mutated(RunMutator("unset-buildpack-env", <<n>>, space))
        /\ UNCHANGED <<varsCli, varsStore, varsProxy>>

NextEnv == SetEnv \/ UnsetEnv \/ SetBuildpackEnv \/ UnsetBuildpackEnv

SpecEnv == InitEnv /\ [][NextEnv]_vars

-----------------------------------------------------------------------------
(* Spec: one run of a subcommand, from the call of its RunE (cobra has      *)
(* accepted the arguments) to its return.                                  *)

MutatorCommands ==
    {[kind |-> "mutator", name |-> n, args |-> <<a>>, gateway |-> "", noStart |-> FALSE] :
        n \in {"append-domain", "set-default-domain", "remove-domain"},
        a \in {"a.example.com", "b.example.com"}}
    \cup
    {[kind |-> "mutator", name |-> n, args |-> <<"B", "2">>, gateway |-> "", noStart |-> FALSE] :
        n \in {"set-env", "set-buildpack-env"}}
    \cup
    {[kind |-> "mutator", name |-> n, args |-> <<"A">>, gateway |-> "", noStart |-> FALSE] :
        n \in {"unset-env", "unset-buildpack-env"}}
    \cup
    {[kind |-> "mutator", name |-> "set-container-registry", args |-> <<"gcr.io/two">>,
      gateway |-> "", noStart |-> FALSE],
     [kind |-> "mutator", name |-> "set-buildpack-builder", args |-> <<"builder:2">>,
      gateway |-> "", noStart |-> FALSE]}

AccessorNames ==
    {"get-container-registry", "get-buildpack-builder", "get-execution-env",
     "get-buildpack-env", "get-domains"}

AccessorCommands ==
    {[kind |-> "accessor", name |-> n, args |-> <<>>, gateway |-> "", noStart |-> FALSE] :
        n \in AccessorNames}

\* The stored spaces a command may meet.
StoredSpaces ==
    {[ExecutionEnv |-> <<[Name |-> "A", Value |-> "1"]>>,
      BuildpackEnv |-> <<[Name |-> "A", Value |-> "2"], [Name |-> "B", Value |-> "1"]>>,
      ContainerRegistry |-> "gcr.io/one",
      BuilderImage |-> "builder:1",
      Domains |-> <<[Domain |-> "a.example.com", Default |-> TRUE],
                    [Domain |-> "c.example.com", Default |-> FALSE]>>],
     [EmptySpace EXCEPT !.ContainerRegistry = "gcr.io/one",
                        !.Domains = <<[Domain |-> "c.example.com", Default |-> TRUE]>>]}

\* The accessor functions of the five get-* subcommands.
Accessor(name, s) ==
    CASE name = "get-container-registry" -> s.ContainerRegistry
      [] name = "get-buildpack-builder"  -> s.BuilderImage
      [] name = "get-execution-env"      -> s.ExecutionEnv
      [] name = "get-buildpack-env"      -> s.BuildpackEnv
      [] name = "get-domains"            -> s.Domains

Returned(res, kind) ==
    /\ result' = res
    /\ failKind' = kind
    /\ pc' = "done"

\* A RunE that goes on after Init without setting SilenceUsage (used to test
\* the properties).
MutatorRunENoSilence ==
    /\ cmd.kind = "mutator"
    /\ pc = "start"
    /\ pc' = "fetch"
    /\ UNCHANGED <<silenceUsage, varsMut, varsStore, varsProxy, cmd, cluster, procs, result, failKind, out>>

\* spaceMutator.ToCommand, RunE up to the call of client.Transform: no Init of
\* the nine mutators returns an error, so SilenceUsage is always reached.
MutatorRunE ==
    /\ cmd.kind = "mutator"
    /\ pc = "start"
    /\ silenceUsage' = TRUE
    /\ pc' = "fetch"
    /\ UNCHANGED <<varsMut, varsStore, varsProxy, cmd, cluster, procs, result, failKind, out>>

\* client.Transform: fetch the space ...
TransformFetch ==
    /\ pc = "fetch"
    /\ space' = remote.obj
    /\ fetchedVersion' = remote.version
    /\ pc' = "apply"
    /\ UNCHANGED <<before, lastOp, lastArgs, lastErr, remote, remote0, writes, attempts,
                   extUpdates, varsProxy, cmd, cluster, procs, silenceUsage, result, failKind, out>>

\* ... or fail to (not found, transport error): Transform returns the error.
TransformFetchFail ==
    /\ pc = "fetch"
    /\ Returned("error", "fetch")
    /\ UNCHANGED <<varsMut, varsStore, varsProxy, cmd, cluster, procs, silenceUsage, out>>

Diff(old, new) == [kind |-> "diff", old |-> old, new |-> new]

\* Transform calls the function it was handed, which is the diffPrintingMutator:
\* the mutator wrapped together with the command's output writer.  The wrapper
\* is the only holder of that writer (RunE prints nothing itself and drops the
\* object Transform returns), so the diff is written when the wrapper runs:
\* it copies the space, calls the mutator, returns its error if any, and
\* otherwise prints the diff of the copy against the mutated space.
TransformApply ==
    /\ pc = "apply"
    /\ lastOp' = cmd.name
    /\ lastArgs' = cmd.args
    /\ LET r == RunMutator(cmd.name, cmd.args, space)
       IN  /\ Mutated(r)
           /\ IF r.err
                 THEN /\ Returned("error", "mutator")
                      /\ out' = out
                 ELSE /\ out' = Append(out, Diff(space, r.space))
                      /\ pc' = "write"
                      /\ UNCHANGED <<result, failKind>>
    /\ UNCHANGED <<varsStore, varsProxy, cmd, cluster, procs, silenceUsage>>

\* The write of the mutated object: accepted when the stored object still has
\* the version that was fetched ...
TransformWrite ==
    /\ pc = "write"
    /\ fetchedVersion = remote.version
    /\ writes' = writes + 1
    /\ remote' = [obj |-> space, version |-> remote.version + 1]
    /\ Returned("ok", "none")
    /\ UNCHANGED <<varsMut, remote0, fetchedVersion, attempts, extUpdates, varsProxy,
                   cmd, cluster, procs, silenceUsage, out>>

\* ... refused with a version conflict otherwise: the store fetches and applies
\* again, until its retries are used up ...
TransformWriteConflict ==
    /\ pc = "write"
    /\ fetchedVersion # remote.version
    /\ writes' = writes + 1
    /\ IF attempts < MaxRetries
          THEN /\ attempts' = attempts + 1
               /\ pc' = "fetch"
               /\ UNCHANGED <<result, failKind>>
          ELSE /\ Returned("error", "write")
               /\ attempts' = attempts
    /\ UNCHANGED <<varsMut, remote, remote0, fetchedVersion, extUpdates, varsProxy,
                   cmd, cluster, procs, silenceUsage, out>>

\* ... or failing for another reason (transport error, rejected object).
TransformWriteFail ==
    /\ pc = "write"
    /\ writes' = writes + 1
    /\ Returned("error", "write")
    /\ UNCHANGED <<varsMut, remote, remote0, fetchedVersion, attempts, extUpdates,
                   varsProxy, cmd, cluster, procs, silenceUsage, out>>

\* Another client updates the stored space while the command runs.
ExternalUpdate ==
    /\ cmd.kind = "mutator"
    /\ pc \in {"fetch", "apply", "write"}
    /\ extUpdates < MaxExternalUpdates
    /\ \E r \in Registries :
          /\ r # remote.obj.ContainerRegistry
          /\ remote' = [obj |-> [remote.obj EXCEPT !.ContainerRegistry = r],
                        version |-> remote.version + 1]
    /\ extUpdates' = extUpdates + 1
    /\ UNCHANGED <<varsMut, remote0, fetchedVersion, writes, attempts, varsProxy, varsCli>>

\* spaceAccessor.ToCommand, RunE: SilenceUsage, then client.Get ...
AccessorRunE ==
    /\ cmd.kind = "accessor"
    /\ pc = "start"
    /\ silenceUsage' = TRUE
    /\ pc' = "get"
    /\ UNCHANGED <<varsMut, varsStore, varsProxy, cmd, cluster, procs, result, failKind, out>>

AccessorGet ==
    /\ pc = "get"
    /\ space' = remote.obj
    /\ pc' = "marshal"
    /\ UNCHANGED <<before, lastOp, lastArgs, lastErr, varsStore, varsProxy, cmd, cluster, procs,
                   silenceUsage, result, failKind, out>>

AccessorGetFail ==
    /\ pc = "get"
    /\ Returned("error", "get")
    /\ UNCHANGED <<varsMut, varsStore, varsProxy, cmd, cluster, procs, silenceUsage, out>>

\* ... then the accessor's value, marshalled to YAML and printed ...
AccessorPrint ==
    /\ pc = "marshal"
    /\ out' = Append(out, [kind |-> "yaml", value |-> Accessor(cmd.name, space)])
    /\ Returned("ok", "none")
    /\ UNCHANGED <<varsMut, varsStore, varsProxy, cmd, cluster, procs, silenceUsage>>

\* ... or, if marshalling fails, printed with %#v and an error returned.
AccessorMarshalFail ==
    /\ pc = "marshal"
    /\ out' = Append(out, [kind |-> "gosyntax", value |-> Accessor(cmd.name, space)])
    /\ Returned("error", "marshal")
    /\ UNCHANGED <<varsMut, varsStore, varsProxy, cmd, cluster, procs, silenceUsage>>

RouteHosts == {"myhost.example.com", "other.example.com"}
GatewayFlags == {"", "10.0.0.9:80"}
Ingresses == {"10.0.0.5", "10.0.0.6"}

\* Requests as the local listener receives them: Host header, URL scheme, URL host.
Requests ==
    {[Host |-> "127.0.0.1:8080", Scheme |-> "", URLHost |-> ""],
     [Host |-> "elsewhere.test", Scheme |-> "", URLHost |-> ""],
     [Host |-> "elsewhere.test", Scheme |-> "https", URLHost |-> "elsewhere.test"]}

ProxyCommands ==
    {[kind |-> "proxy", name |-> "proxy-route", args |-> <<h>>, gateway |-> g, noStart |-> ns] :
        h \in RouteHosts, g \in GatewayFlags, ns \in BOOLEAN}

\* istio.ExtractIngressFromList: the one discovered candidate, or an error when
\* there is none or more than one.
ExtractIngressFromList(ingresses) ==
    IF Len(ingresses) = 1
      THEN [ingress |-> ingresses[1], err |-> FALSE]
      ELSE [ingress |-> "", err |-> TRUE]

\* A determination that consults discovery whatever the flag says (used to
\* test the properties).
ResolveGatewayAlwaysDiscover(flag, ingresses) ==
    LET r == ExtractIngressFromList(ingresses)
    IN  [gateway |-> r.ingress, err |-> r.err, listed |-> TRUE]

\* A determination that drops the error of discovery and goes on with what it
\* got (used to test the properties).
ResolveGatewayIgnoresError(flag, ingresses) ==
    IF flag = ""
      THEN [gateway |-> ExtractIngressFromList(ingresses).ingress, err |-> FALSE,
            listed |-> TRUE]
      ELSE [gateway |-> flag, err |-> FALSE, listed |-> FALSE]

\* Gateway determination of proxy-route: the flag if it was given, discovery
\* otherwise.  listed tells whether ListIngresses was called.
ResolveGateway(flag, ingresses) ==
    IF flag = ""
      THEN LET r == ExtractIngressFromList(ingresses)
           IN  [gateway |-> r.ingress, err |-> r.err, listed |-> TRUE]
      ELSE [gateway |-> flag, err |-> FALSE, listed |-> FALSE]

\* A Director that leaves the scheme of the request alone (used to test the
\* properties).
DirectorKeepsScheme(req, routeHost, gw) ==
    [req EXCEPT !.Host = routeHost, !.URLHost = gw]

\* The Director of the reverse proxy createProxy builds.
Director(req, routeHost, gw) ==
    [req EXCEPT !.Host = routeHost, !.Scheme = "http", !.URLHost = gw]

\* NewProxyRouteCommand, RunE: namespace validation, then host and SilenceUsage.
ProxyValidateNamespace ==
    /\ cmd.kind = "proxy"
    /\ pc = "start"
    /\ IF cluster.namespaceSet
          THEN /\ silenceUsage' = TRUE
               /\ pc' = "gateway"
               /\ UNCHANGED <<result, failKind>>
          ELSE /\ Returned("error", "namespace")
               /\ UNCHANGED silenceUsage
    /\ UNCHANGED <<varsMut, varsStore, varsProxy, cmd, cluster, procs, out>>

ProxyResolveGateway ==
    /\ pc = "gateway"
    /\ LET r == ResolveGateway(gateway, cluster.ingresses)
       IN  /\ out' = IF r.listed THEN Append(out, [kind |-> "autodetect"]) ELSE out
           /\ listCalls' = IF r.listed THEN listCalls + 1 ELSE listCalls
           /\ IF r.err
                 THEN /\ Returned("error", "gateway")
                      /\ UNCHANGED gateway
                 ELSE /\ gateway' = r.gateway
                      /\ pc' = "listen"
                      /\ UNCHANGED <<result, failKind>>
    /\ UNCHANGED <<varsMut, varsStore, listener, conns, cmd, cluster, procs, silenceUsage>>

\* A RunE that serves whatever --no-start says (used to test the properties).
ProxyListenIgnoresNoStart ==
    /\ pc = "listen"
    /\ listener' = "bound"
    /\ out' = Append(out, [kind |-> "banner", gateway |-> gateway, host |-> cmd.args[1]])
    /\ pc' = "serve"
    /\ UNCHANGED <<result, failKind>>
    /\ UNCHANGED <<varsMut, varsStore, gateway, listCalls, conns, cmd, cluster, procs, silenceUsage>>

\* net.Listen succeeds: the banner is printed; with --no-start RunE returns,
\* otherwise http.Serve takes over the listener.
ProxyListen ==
    /\ pc = "listen"
    /\ listener' = "bound"
    /\ LET banner == [kind |-> "banner", gateway |-> gateway, host |-> cmd.args[1]]
       IN  IF cmd.noStart
             THEN /\ out' = out \o <<banner, [kind |-> "no-start-exit"]>>
                  /\ Returned("ok", "none")
             ELSE /\ out' = Append(out, banner)
                  /\ pc' = "serve"
                  /\ UNCHANGED <<result, failKind>>
    /\ UNCHANGED <<varsMut, varsStore, gateway, listCalls, conns, cmd, cluster, procs, silenceUsage>>

ProxyListenFail ==
    /\ pc = "listen"
    /\ Returned("error", "listen")
    /\ UNCHANGED <<varsMut, varsStore, varsProxy, cmd, cluster, procs, silenceUsage, out>>

\* http.Serve: a connection is accepted and handled on its own goroutine.
ServeAccept ==
    /\ pc = "serve"
    /\ listener = "bound"
    /\ \E c \in 1..MaxConns, req \in Requests :
          /\ conns[c].st = "free"
          /\ conns' = [conns EXCEPT ![c] = [@ EXCEPT !.st = "accepted", !.req = req]]
    /\ UNCHANGED <<varsMut, varsStore, gateway, listCalls, listener, varsCli>>

\* The reverse proxy hands the request to the Director, which also logs it.
ServeDirector ==
    /\ pc = "serve"
    /\ \E c \in 1..MaxConns :
          /\ conns[c].st = "accepted"
          /\ conns' = [conns EXCEPT ![c] =
                          [@ EXCEPT !.st = "forwarding",
                                    !.fwd = Director(conns[c].req, cmd.args[1], gateway),
                                    !.logs = @ \cup {"request"}]]
    /\ UNCHANGED <<varsMut, varsStore, gateway, listCalls, listener, varsCli>>

\* The round trip to the gateway succeeds: its response goes to the caller.
ServeForwardOk ==
    /\ pc = "serve"
    /\ \E c \in 1..MaxConns :
          /\ conns[c].st = "forwarding"
          /\ conns' = [conns EXCEPT ![c] = [@ EXCEPT !.st = "responded", !.status = 200]]
    /\ UNCHANGED <<varsMut, varsStore, gateway, listCalls, listener, varsCli>>

\* A proxy whose failed round trip ends the serving (used to test the
\* properties).
ServeForwardFailStopsServe ==
    /\ pc = "serve"
    /\ \E c \in 1..MaxConns :
          /\ conns[c].st = "forwarding"
          /\ conns' = [conns EXCEPT ![c] =
                          [@ EXCEPT !.st = "responded", !.status = 502,
                                    !.logs = @ \cup {"proxy error"}]]
    /\ listener' = "closed"
    /\ Returned("error", "serve")
    /\ UNCHANGED <<varsMut, varsStore, gateway, listCalls, cmd, cluster, procs, silenceUsage, out>>

\* The round trip fails: the proxy logs the error to ErrorLog and answers 502.
ServeForwardFail ==
    /\ pc = "serve"
    /\ \E c \in 1..MaxConns :
          /\ conns[c].st = "forwarding"
          /\ conns' = [conns EXCEPT ![c] =
                          [@ EXCEPT !.st = "responded", !.status = 502,
                                    !.logs = @ \cup {"proxy error"}]]
    /\ UNCHANGED <<varsMut, varsStore, gateway, listCalls, listener, varsCli>>

\* The listener is closed or its Accept fails: http.Serve returns the error.
ServeReturn ==
    /\ pc = "serve"
    /\ listener' = "closed"
    /\ Returned("error", "serve")
    /\ UNCHANGED <<varsMut, varsStore, gateway, listCalls, conns, cmd, cluster, procs,
                   silenceUsage, out>>

Init ==
    /\ \E c \in MutatorCommands \cup AccessorCommands \cup ProxyCommands :
          /\ cmd = c
          /\ gateway = c.gateway
          /\ IF c.kind = "proxy"
                THEN \E ns \in BOOLEAN, ing \in SeqsUpTo(Ingresses, MaxCandidates) :
                        cluster = [namespaceSet |-> ns, ingresses |-> ing]
                ELSE cluster = [namespaceSet |-> TRUE, ingresses |-> <<>>]
    /\ \E s \in StoredSpaces :
          /\ remote = [obj |-> s, version |-> 0]
          /\ remote0 = s
    /\ procs = [p \in Procs |-> IdleProc]
    /\ space = EmptySpace
    /\ before = EmptySpace
    /\ lastOp = "none"
    /\ lastArgs = <<>>
    /\ lastErr = FALSE
    /\ pc = "start"
    /\ silenceUsage = FALSE
    /\ result = "running"
    /\ failKind = "none"
    /\ out = <<>>
    /\ fetchedVersion = 0
    /\ writes = 0
    /\ attempts = 0
    /\ extUpdates = 0
    /\ listCalls = 0
    /\ listener = "none"
    /\ conns = [c \in 1..MaxConns |-> FreeConn]

Next ==
    \/ MutatorRunE \/ TransformFetch \/ TransformFetchFail \/ TransformApply
    \/ TransformWrite \/ TransformWriteConflict \/ TransformWriteFail \/ ExternalUpdate
    \/ AccessorRunE \/ AccessorGet \/ AccessorGetFail \/ AccessorPrint \/ AccessorMarshalFail
    \/ ProxyValidateNamespace \/ ProxyResolveGateway \/ ProxyListen \/ ProxyListenFail
    \/ ServeAccept \/ ServeDirector \/ ServeForwardOk \/ ServeForwardFail \/ ServeReturn

Spec == Init /\ [][Next]_vars

-----------------------------------------------------------------------------
(* Two mutation commands run side by side against one stored space          *)

\* Everything but the two commands and the store they share.
varsSingle ==
    <<varsMut, cmd, cluster, pc, silenceUsage, result, failKind, out, fetchedVersion,
      writes, attempts, extUpdates, varsProxy>>

ConcurrentCommands ==
    {[name |-> "set-env", args |-> <<"A", "2">>],
     [name |-> "set-env", args |-> <<"B", "2">>],
     [name |-> "unset-env", args |-> <<"A">>],
     [name |-> "set-container-registry", args |-> <<"gcr.io/two">>],
     [name |-> "append-domain", args |-> <<"a.example.com">>],
     [name |-> "set-default-domain", args |-> <<"a.example.com">>],
     [name |-> "remove-domain", args |-> <<"c.example.com">>]}

InitConcurrent ==
    /\ \E s \in StoredSpaces :
          /\ remote = [obj |-> s, version |-> 0]
          /\ remote0 = s
    /\ \E c \in [Procs -> ConcurrentCommands] :
          procs = [p \in Procs |->
                      [IdleProc EXCEPT !.name = c[p].name, !.args = c[p].args,
                                       !.pc = "fetch"]]
    /\ space = EmptySpace
    /\ before = EmptySpace
    /\ lastOp = "none"
    /\ lastArgs = <<>>
    /\ lastErr = FALSE
    /\ cmd = NoCommand
    /\ cluster = [namespaceSet |-> TRUE, ingresses |-> <<>>]
    /\ pc = "done"
    /\ silenceUsage = FALSE
    /\ result = "running"
    /\ failKind = "none"
    /\ out = <<>>
    /\ fetchedVersion = 0
    /\ writes = 0
    /\ attempts = 0
    /\ extUpdates = 0
    /\ gateway = ""
    /\ listCalls = 0
    /\ listener = "none"
    /\ conns = [c \in 1..MaxConns |-> FreeConn]

\* client.Transform of one command: fetch the space as it is stored now ...
ConcurrentFetch ==
    \E p \in Procs :
        /\ procs[p].pc = "fetch"
        /\ procs' = [procs EXCEPT ![p].obj = remote.obj,
                                  ![p].version = remote.version,
                                  ![p].pc = "apply"]
        /\ UNCHANGED <<remote, remote0, varsSingle>>

\* ... or fail to.
ConcurrentFetchFail ==
    \E p \in Procs :
        /\ procs[p].pc = "fetch"
        /\ procs' = [procs EXCEPT ![p].result = "error", ![p].pc = "done"]
        /\ UNCHANGED <<remote, remote0, varsSingle>>

\* A function that goes by the object the command saw first instead of the
\* one it is handed (used to test the properties).
ConcurrentApplyStale ==
    \E p \in Procs :
        /\ procs[p].pc = "apply"
        /\ LET r == RunMutator(procs[p].name, procs[p].args, remote0)
           IN  procs' = IF r.err
                           THEN [procs EXCEPT ![p].obj = r.space,
                                              ![p].result = "error",
                                              ![p].pc = "done"]
                           ELSE [procs EXCEPT ![p].obj = r.space,
                                              ![p].diffs = @ + 1,
                                              ![p].pc = "write"]
        /\ UNCHANGED <<remote, remote0, varsSingle>>

\* Transform calls the diffPrintingMutator on the object it fetched: the
\* mutator's error ends the command, otherwise the diff is printed and the
\* mutated object goes to the write.
ConcurrentApply ==
    \E p \in Procs :
        /\ procs[p].pc = "apply"
        /\ LET r == RunMutator(procs[p].name, procs[p].args, procs[p].obj)
           IN  procs' = IF r.err
                           THEN [procs EXCEPT ![p].obj = r.space,
                                              ![p].result = "error",
                                              ![p].pc = "done"]
                           ELSE [procs EXCEPT ![p].obj = r.space,
                                              ![p].diffs = @ + 1,
                                              ![p].pc = "write"]
        /\ UNCHANGED <<remote, remote0, varsSingle>>

\* The write is accepted when the stored object still has the fetched version ...
ConcurrentWrite ==
    \E p \in Procs :
        /\ procs[p].pc = "write"
        /\ procs[p].version = remote.version
        /\ remote' = [obj |-> procs[p].obj, version |-> remote.version + 1]
        /\ procs' = [procs EXCEPT ![p].result = "ok", ![p].pc = "done"]
        /\ UNCHANGED <<remote0, varsSingle>>

\* ... refused with a version conflict when the other command wrote in
\* between: fetch and apply again, until the retries are used up ...
ConcurrentWriteConflict ==
    \E p \in Procs :
        /\ procs[p].pc = "write"
        /\ procs[p].version # remote.version
        /\ procs' = IF procs[p].attempts < MaxRetries
                       THEN [procs EXCEPT ![p].attempts = @ + 1, ![p].pc = "fetch"]
                       ELSE [procs EXCEPT ![p].result = "error", ![p].pc = "done"]
        /\ UNCHANGED <<remote, remote0, varsSingle>>

\* ... or failing for another reason.
ConcurrentWriteFail ==
    \E p \in Procs :
        /\ procs[p].pc = "write"
        /\ procs' = [procs EXCEPT ![p].result = "error", ![p].pc = "done"]
        /\ UNCHANGED <<remote, remote0, varsSingle>>

NextConcurrent ==
    \/ ConcurrentFetch \/ ConcurrentFetchFail \/ ConcurrentApply
    \/ ConcurrentWrite \/ ConcurrentWriteConflict \/ ConcurrentWriteFail

SpecConcurrent == InitConcurrent /\ [][NextConcurrent]_vars

-----------------------------------------------------------------------------
(* Properties of the domain mutators (checked under SpecDomains)           *)

IsDomainOp == lastOp \in {"append-domain", "set-default-domain", "remove-domain"}

ArgPresentBefore == lastArgs[1] \in DomainNamesOf(before.Domains)

\* C1: after a set-default-domain call that matched an entry exactly one entry
\* is default, and after every successful domain mutation at most one entry is.
C1_ExactlyOneDefault ==
    /\ (lastOp = "set-default-domain" /\ ArgPresentBefore)
          => DefaultCount(space.Domains) = 1
    /\ (IsDomainOp /\ ~lastErr) => DefaultCount(space.Domains) <= 1

\* C2: set-default-domain with a name no entry carries returns an error and
\* leaves the space it was applied to as it was.
C2_NotFoundLeavesSpaceUnchanged ==
    (lastOp = "set-default-domain" /\ ~ArgPresentBefore)
        => (lastErr /\ space = before)

\* C5 as stated: every domain mutator, applied a second time with the same
\* argument, gives the domain list the first application gave.
C5_AllDomainMutatorsIdempotent ==
    IsDomainOp =>
        RunMutator(lastOp, lastArgs, space).space.Domains = space.Domains

\* C5 as amended: set-default-domain and remove-domain are idempotent (same
\* list and same error on the second application); append-domain is not: the
\* second application adds one more entry.
C5_SetDefaultAndRemoveIdempotent ==
    /\ lastOp \in {"set-default-domain", "remove-domain"}
          => /\ RunMutator(lastOp, lastArgs, space).space = space
             /\ RunMutator(lastOp, lastArgs, space).err = lastErr
    /\ lastOp = "append-domain"
          => Len(RunMutator(lastOp, lastArgs, space).space.Domains)
                = Len(space.Domains) + 1

\* A removal that met the name twice, so that one pass had two entries to drop.
C5_Witness ==
    /\ lastOp = "remove-domain"
    /\ Cardinality({i \in 1..Len(before.Domains) :
                       before.Domains[i].Domain = lastArgs[1]}) = 2
    /\ Len(space.Domains) = 1

\* C8: remove-domain of a name no entry carries returns no error and leaves
\* the domain list (entries, order, Default flags) unchanged.
C8_RemoveAbsentIsNoOp ==
    (lastOp = "remove-domain" /\ ~ArgPresentBefore)
        => (~lastErr /\ space = before)

\* An absent name removed from a list with a repeated name, out of name order,
\* and a default entry.
C8_Witness ==
    /\ lastOp = "remove-domain"
    /\ ~ArgPresentBefore
    /\ Len(before.Domains) = 3
    /\ before.Domains[1].Domain = "c.example.com"
    /\ before.Domains[2].Domain = "a.example.com"
    /\ before.Domains[3].Domain = "c.example.com"
    /\ before.Domains[2].Default
    /\ space = before

-----------------------------------------------------------------------------
(* Properties of the env mutators (checked under SpecEnv)                  *)

OthersInOrder(old, name) == SelectSeq(old, LAMBDA e : e.Name # name)

Occurrences(env, name) == Cardinality({i \in 1..Len(env) : env[i].Name = name})

ReplacedOrInserted(old, new, name, value) ==
    /\ Len(new) >= 1
    /\ new[Len(new)] = [Name |-> name, Value |-> value]
    /\ SubSeq(new, 1, Len(new) - 1) = OthersInOrder(old, name)
    /\ Occurrences(new, name) = 1

\* C7: set-env / set-buildpack-env leave the other entries in order followed by
\* the one entry (NAME, VALUE); unsetting an absent NAME changes nothing and
\* returns no error.
C7_EnvReplaceOrInsert ==
    /\ lastOp = "set-env"
          => /\ ~lastErr
             /\ ReplacedOrInserted(before.ExecutionEnv, space.ExecutionEnv,
                                    lastArgs[1], lastArgs[2])
    /\ lastOp = "set-buildpack-env"
          => /\ ~lastErr
             /\ ReplacedOrInserted(before.BuildpackEnv, space.BuildpackEnv,
                                    lastArgs[1], lastArgs[2])
    /\ (lastOp = "unset-env" /\ lastArgs[1] \notin EnvNamesOf(before.ExecutionEnv))
          => (~lastErr /\ space.ExecutionEnv = before.ExecutionEnv)
    /\ (lastOp = "unset-buildpack-env" /\ lastArgs[1] \notin EnvNamesOf(before.BuildpackEnv))
          => (~lastErr /\ space.BuildpackEnv = before.BuildpackEnv)

\* set-env of a name that was the first of several entries: it moves last.
C7_Witness ==
    /\ lastOp = "set-env"
    /\ Len(before.ExecutionEnv) >= 2
    /\ before.ExecutionEnv[1].Name = lastArgs[1]
    /\ before.ExecutionEnv[1].Value # lastArgs[2]
    /\ before.ExecutionEnv[2].Name # lastArgs[1]
    /\ space.ExecutionEnv[1] = before.ExecutionEnv[2]

-----------------------------------------------------------------------------
(* Properties of a command run (checked under Spec)                        *)

DiffCount == Cardinality({i \in 1..Len(out) : out[i].kind = "diff"})

\* C3: when the command returns an error because the fetch or the write
\* failed, no diff has been printed.
C3_NoDiffWhenFetchOrWriteFailed ==
    (result = "error" /\ failKind \in {"fetch", "write"}) => DiffCount = 0

LastDiff == out[Len(out)]

\* C15: a mutation command that succeeded has shown exactly one diff, however
\* often the store called the function again after version conflicts, and the
\* diff's "before" side is the object the accepted write replaced.
C15_OneDiffOnSuccess ==
    (cmd.kind = "mutator" /\ result = "ok")
        => /\ DiffCount = 1
           /\ LastDiff.kind = "diff"
           /\ LastDiff.old = before
           /\ LastDiff.new = remote.obj

\* C4 as stated: when the command returns the error of a failed fetch or of
\* the transformation, the number of write calls is zero.
C4_NoWriteCallOnFetchOrMutatorError ==
    (result = "error" /\ failKind \in {"fetch", "mutator"}) => writes = 0

\* C4 as amended: a write call is made only in an attempt whose fetch and
\* transformation succeeded; when the fetch fails or the transformation
\* returns an error (set-default-domain with an unknown domain does), no write
\* is made in that attempt, none of the command's writes has been accepted,
\* the command returns the error, and the only write calls there have been
\* are the refused ones of earlier attempts, one per conflict retry.
C4_WriteOnlyAfterFetchAndTransform ==
    /\ pc \in {"fetch", "apply", "write"} => writes = attempts
    /\ writes > attempts
          => (pc = "done" /\ writes = attempts + 1 /\ ~lastErr /\ lastOp = cmd.name
              /\ failKind \in {"none", "write"})
    /\ failKind \in {"fetch", "mutator"}
          => /\ result = "error"
             /\ writes = attempts
             /\ remote.version = extUpdates
             /\ (extUpdates = 0 => remote.obj = remote0)
             /\ (attempts = 0 => writes = 0)
    /\ (lastOp = "set-default-domain" /\ lastArgs[1] \notin DomainNamesOf(before.Domains))
          => (failKind = "mutator" /\ result = "error" /\ pc = "done")

\* set-default-domain of a domain the fetched space does not have: the command
\* has returned the mutator's error without a write call.
C4_Witness ==
    /\ cmd.name = "set-default-domain"
    /\ lastOp = "set-default-domain"
    /\ cmd.args[1] \notin DomainNamesOf(before.Domains)
    /\ failKind = "mutator"
    /\ result = "error"
    /\ writes = 0
    /\ remote.obj = remote0

\* C6 as stated: whenever a subcommand returns an error, usage output has
\* been suppressed.
C6_UsageSilencedOnEveryError ==
    result = "error" => silenceUsage

\* C6 as amended: whenever a subcommand returns an error from a step after its
\* validation (for proxy-route, after the namespace validation), usage output
\* has been suppressed; the error of proxy-route's namespace validation is
\* returned with usage output not suppressed.
C6_UsageSilencedAfterValidation ==
    /\ (result = "error" /\ failKind # "namespace") => silenceUsage
    /\ failKind = "namespace" => (result = "error" /\ ~silenceUsage /\ cmd.kind = "proxy")

\* A mutation command whose write failed: the error is returned, usage silenced.
C6_Witness ==
    /\ cmd.kind = "mutator"
    /\ result = "error"
    /\ failKind = "write"
    /\ silenceUsage

Forwarded(c) == conns[c].st \in {"forwarding", "responded"}

\* The gateway the process was started for: the flag, or the one discovered.
DeterminedGateway ==
    IF cmd.gateway # "" THEN cmd.gateway ELSE cluster.ingresses[1]

\* C9: every request handed on for forwarding has Host = the route host,
\* scheme "http" and URL host = the gateway, whatever the request was; route
\* host and gateway are those the process was started with.
C9_ProxyHostRewrite ==
    \A c \in 1..MaxConns :
        Forwarded(c)
            => /\ conns[c].fwd.Host = cmd.args[1]
               /\ conns[c].fwd.Scheme = "http"
               /\ conns[c].fwd.URLHost = gateway
               /\ gateway = DeterminedGateway

\* Two requests forwarded, one of them sent with an https URL to another host.
C9_Witness ==
    /\ Forwarded(1) /\ Forwarded(2)
    /\ conns[1].req.Scheme = "https"
    /\ conns[1].req.Host # cmd.args[1]
    /\ conns[1].req.URLHost # gateway
    /\ conns[2].req.Scheme = ""
    /\ conns[1].fwd = conns[2].fwd

\* proxy-route has gone through its gateway determination (with or without
\* success).
PastGateway == cmd.kind = "proxy" /\ pc \notin {"start", "gateway"} /\ failKind # "namespace"

\* C10: an explicit gateway is used as it is and discovery is never called;
\* without one the gateway is the discovered candidate iff there is exactly
\* one, and with none or several the command fails.
C10_GatewayDetermination ==
    /\ (cmd.kind = "proxy" /\ cmd.gateway # "")
          => /\ listCalls = 0
             /\ gateway = cmd.gateway
             /\ failKind # "gateway"
    /\ (PastGateway /\ cmd.gateway = "" /\ Len(cluster.ingresses) = 1)
          => /\ gateway = cluster.ingresses[1]
             /\ failKind # "gateway"
             /\ listCalls = 1
    /\ (PastGateway /\ cmd.gateway = "" /\ Len(cluster.ingresses) # 1)
          => /\ result = "error"
             /\ failKind = "gateway"
             /\ listener = "none"

\* An explicit gateway in use while discovery would have been ambiguous.
C10_Witness ==
    /\ cmd.gateway # ""
    /\ Len(cluster.ingresses) = 2
    /\ pc = "serve"
    /\ gateway = cmd.gateway
    /\ listCalls = 0

-----------------------------------------------------------------------------
(* Properties of the proxy's startup (checked under Spec)                  *)

Banner == [kind |-> "banner", gateway |-> DeterminedGateway, host |-> cmd.args[1]]

BannerCount == Cardinality({i \in 1..Len(out) : out[i].kind = "banner"})

NothingServed == \A c \in 1..MaxConns : conns[c] = FreeConn

DryRun == cmd.kind = "proxy" /\ cmd.noStart

DryRunPrinted ==
    /\ Len(out) >= 2
    /\ out[Len(out) - 1] = Banner
    /\ out[Len(out)].kind = "no-start-exit"

\* C11 as stated: every dry-run in which a gateway was determined has, when it
\* returns, printed the banner and returned success, with nothing accepted.
C11_DryRunAlwaysSucceeds ==
    (DryRun /\ PastGateway /\ failKind # "gateway" /\ pc = "done")
        => (result = "ok" /\ DryRunPrinted /\ NothingServed)

\* C11 as amended: a dry-run never accepts or forwards; when a gateway was
\* determined and the local listener could be bound, it prints gateway,
\* examples and listener address and returns success; when net.Listen fails
\* it returns that error and prints no banner.
C11_DryRunNeverServes ==
    DryRun =>
        /\ pc # "serve"
        /\ NothingServed
        /\ listener = "bound" => (pc = "done" /\ result = "ok" /\ DryRunPrinted)
        /\ (pc = "done" /\ failKind = "none") => listener = "bound"
        /\ failKind = "listen" => (result = "error" /\ BannerCount = 0)

\* A dry-run that discovered its gateway and returned success.
C11_Witness ==
    /\ DryRun
    /\ cmd.gateway = ""
    /\ result = "ok"
    /\ listCalls = 1
    /\ DryRunPrinted
    /\ NothingServed

\* C17: the listener is bound, and requests are accepted, only once a gateway
\* has been determined; when the determination fails the command returns the
\* error with no listener bound, no banner printed and nothing forwarded.
C17_ListenAfterGateway ==
    /\ (listener # "none" \/ ~NothingServed \/ BannerCount > 0)
          => /\ PastGateway
             /\ failKind # "gateway"
             /\ gateway # ""
             /\ gateway = DeterminedGateway
    /\ failKind = "gateway"
          => /\ result = "error"
             /\ pc = "done"
             /\ listener = "none"
             /\ BannerCount = 0
             /\ NothingServed

\* Discovery was ambiguous: the command has returned the error, nothing bound.
C17_Witness ==
    /\ cmd.kind = "proxy"
    /\ cmd.gateway = ""
    /\ Len(cluster.ingresses) = 2
    /\ failKind = "gateway"
    /\ result = "error"
    /\ listener = "none"
    /\ listCalls = 1

-----------------------------------------------------------------------------
(* Further properties of the domain mutators (checked under SpecDomains)   *)

\* C12: append-domain D returns no error and leaves the list it was given,
\* entry for entry, followed by one new entry D that is not default, whether
\* or not the list already had an entry named D.
C12_AppendAlwaysAdds ==
    lastOp = "append-domain"
        => /\ ~lastErr
           /\ Len(space.Domains) = Len(before.Domains) + 1
           /\ SubSeq(space.Domains, 1, Len(before.Domains)) = before.Domains
           /\ space.Domains[Len(space.Domains)] =
                  [Domain |-> lastArgs[1], Default |-> FALSE]

\* A name appended to a list that already had it, as its default.
C12_Witness ==
    /\ lastOp = "append-domain"
    /\ \E i \in 1..Len(before.Domains) :
          before.Domains[i].Domain = lastArgs[1] /\ before.Domains[i].Default
    /\ Len(space.Domains) = Len(before.Domains) + 1

WithoutName(doms, name) == SelectSeq(doms, LAMBDA d : d.Domain # name)

\* C16: remove-domain D leaves exactly the entries not named D, with their
\* flags and in their order: every entry named D goes, default or repeated.
C16_RemoveIsDifferenceByName ==
    lastOp = "remove-domain"
        => /\ ~lastErr
           /\ space.Domains = WithoutName(before.Domains, lastArgs[1])
           /\ lastArgs[1] \notin DomainNamesOf(space.Domains)

\* A removal of a name carried twice, once by the default entry, from a list
\* that keeps another entry.
C16_Witness ==
    /\ lastOp = "remove-domain"
    /\ Len(before.Domains) = 3
    /\ Len(space.Domains) = 1
    /\ \E i \in 1..3 : before.Domains[i].Domain = lastArgs[1] /\ before.Domains[i].Default
    /\ \E i \in 1..3 : before.Domains[i].Domain = lastArgs[1] /\ ~before.Domains[i].Default

-----------------------------------------------------------------------------
(* Frame of the mutators and accessors (checked under Spec)                *)

SpaceFields == {"ExecutionEnv", "BuildpackEnv", "ContainerRegistry", "BuilderImage", "Domains"}

\* The field each subcommand is named after.
FieldOf(name) ==
    CASE name \in {"set-env", "unset-env", "get-execution-env"} -> "ExecutionEnv"
      [] name \in {"set-buildpack-env", "unset-buildpack-env", "get-buildpack-env"}
            -> "BuildpackEnv"
      [] name \in {"set-container-registry", "get-container-registry"} -> "ContainerRegistry"
      [] name \in {"set-buildpack-builder", "get-buildpack-builder"} -> "BuilderImage"
      [] name \in {"append-domain", "set-default-domain", "remove-domain", "get-domains"}
            -> "Domains"

Printed == {out[i] : i \in 1..Len(out)}

\* space and before are the two sides of the last mutator call (not so once
\* the store has fetched again for a retry).
MutatorJustCalled == lastOp # "none" /\ pc # "apply"

\* C18: a mutator call leaves every field but its own as it was; an accessor
\* prints the field it is named after, of the stored space, and changes
\* neither the stored space nor anything else.
C18_OnlyOwnField ==
    /\ MutatorJustCalled
          => \A f \in SpaceFields \ {FieldOf(lastOp)} : space[f] = before[f]
    /\ cmd.kind = "accessor"
          => /\ remote = [obj |-> remote0, version |-> 0]
             /\ writes = 0
             /\ lastOp = "none"
             /\ pc = "marshal" => space = remote0
             /\ \A e \in Printed : e.value = remote0[FieldOf(cmd.name)]
             /\ result = "ok" => Len(out) = 1

\* set-buildpack-env applied to a space whose two env lists differ: the
\* buildpack list changed.
C18_Witness ==
    /\ MutatorJustCalled
    /\ lastOp = "set-buildpack-env"
    /\ before.ExecutionEnv # before.BuildpackEnv
    /\ before.ExecutionEnv # <<>>
    /\ space.BuildpackEnv # before.BuildpackEnv

-----------------------------------------------------------------------------
(* Failure isolation of the proxy (checked under Spec)                     *)

FailsAt(c) == conns[c].status # 502 /\ conns'[c].status = 502

\* C13: the step in which a forward fails answers that caller with an error
\* response and logs the failure, and leaves the listener, the serving loop
\* and every other connection as they were, so that free connections are
\* still accepted and requests in flight still forwarded.
C13_FailureIsolation ==
    [][\A c \in 1..MaxConns :
          FailsAt(c)
              => /\ conns[c].st = "forwarding"
                 /\ conns'[c].st = "responded"
                 /\ "proxy error" \in conns'[c].logs
                 /\ pc' = "serve"
                 /\ listener' = "bound"
                 /\ result' = "running"
                 /\ \A d \in 1..MaxConns \ {c} : conns'[d] = conns[d]
                 /\ (\E d \in 1..MaxConns : conns'[d].st = "free") => (ENABLED ServeAccept)'
                 /\ (\E d \in 1..MaxConns : conns'[d].st = "accepted")
                       => (ENABLED ServeDirector)'
                 /\ (\E d \in 1..MaxConns : conns'[d].st = "forwarding")
                       => (ENABLED ServeForwardOk)']_vars

\* One request failed, and another, on the other connection, got its answer
\* from the gateway while the proxy is still serving.
C13_Witness ==
    /\ pc = "serve"
    /\ conns[1].status = 502
    /\ "proxy error" \in conns[1].logs
    /\ conns[2].status = 200

-----------------------------------------------------------------------------
(* No lost update (checked under SpecConcurrent)                            *)

BothSucceeded == \A p \in Procs : procs[p].result = "ok"

\* The mutators of the two commands applied one after the other to s, first
\* the one of command p and then the one of command q.
InOrder(p, q, s) ==
    LET r1 == RunMutator(procs[p].name, procs[p].args, s)
        r2 == RunMutator(procs[q].name, procs[q].args, r1.space)
    IN  [space |-> r2.space, err |-> r1.err \/ r2.err]

SerialResults ==
    {InOrder(p, q, remote0).space :
        <<p, q>> \in {pq \in Procs \X Procs :
                        pq[1] # pq[2] /\ ~InOrder(pq[1], pq[2], remote0).err}}

SetEnvNames == {procs[p].args[1] : p \in {q \in Procs : procs[q].name = "set-env"}}

\* C14: when both concurrent commands succeeded, the stored object is what
\* the two mutators give when applied one after the other, in some order, to
\* the initial object; when both are set-env commands, the names they set
\* are all in the stored env list.
C14_NoLostUpdate ==
    BothSucceeded =>
        /\ remote.obj \in SerialResults
        /\ remote.version = 2
        /\ (\A p \in Procs : procs[p].name = "set-env")
              => SetEnvNames \subseteq EnvNamesOf(remote.obj.ExecutionEnv)

\* set-env A and set-env B both succeeded, one of them after a conflict.
C14_Witness ==
    /\ BothSucceeded
    /\ SetEnvNames = {"A", "B"}
    /\ \E p \in Procs : procs[p].attempts > 0

=============================================================================
